---- MODULE Spec2Model ----
(***************************************************************************)
(* Model of graph_processor.py: the Graph class (adjacency defaultdict and *)
(* node set), the degree queries, is_dag (three-state DFS) and             *)
(* compute_pagerank (damped, sink-aware iteration, in exact rationals).    *)
(***************************************************************************)
EXTENDS Integers, Sequences, FiniteSets, Bags, TLC

\* ---------------------------------------------------------------- bounds
MaxNode == 3
MaxEdges == 3
MaxIter == 2

\* Node identifiers offered to add_edge and to the queries.
NodeIds == 1..MaxNode

\* Damping factors offered to compute_pagerank, as <<numerator, denominator>>;
\* <<17, 20>> is the default 0.85.
DefaultDamping == <<17, 20>>
DampingValues == {<<0, 1>>, <<1, 2>>, DefaultDamping, <<1, 1>>}

VARIABLES
    adjacency,   \* Graph.adjacency: defaultdict(list), a function on its keys
    nodes,       \* Graph.nodes: set of node ids
    inserted,    \* history: bag of the (source, target) pairs given to add_edge
    pc,          \* "idle", or the position inside is_dag / compute_pagerank
    ret,         \* the value returned by the last completed query
    state,       \* is_dag: node -> 0 unvisited, 1 visiting, 2 visited
    stack,       \* is_dag: active has_cycle_dfs frames <<node, neighbour index>>
    pagerank,    \* compute_pagerank: node -> rank, a rational <<num, den>>
    damping,     \* compute_pagerank: damping_factor argument
    iterations,  \* compute_pagerank: iterations argument
    round        \* compute_pagerank: rounds of the iteration loop completed

vars == <<adjacency, nodes, inserted, pc, ret, state, stack,
          pagerank, damping, iterations, round>>

graphVars == <<adjacency, nodes, inserted>>
dagVars == <<state, stack>>
rankVars == <<pagerank, damping, iterations, round>>

NoRet == [op |-> "none"]
EmptyMap == <<>>

\* ------------------------------------------------------- Graph (class)

\* defaultdict(list).__getitem__: reading a missing key inserts it with [].
Touch(adj, k) ==
    IF k \in DOMAIN adj THEN adj ELSE adj @@ (k :> <<>>)

RECURSIVE TouchAll(_, _)
TouchAll(adj, ks) ==
    IF ks = {} THEN adj
    ELSE LET k == CHOOSE x \in ks : TRUE
         IN  TouchAll(Touch(adj, k), ks \ {k})

\* list.count(x)
Count(seq, x) == Cardinality({i \in 1..Len(seq) : seq[i] = x})

\* x in list
InList(x, seq) == \E i \in 1..Len(seq) : seq[i] = x

RECURSIVE SumOver(_, _)
SumOver(f, ks) ==
    IF ks = {} THEN 0
    ELSE LET k == CHOOSE x \in ks : TRUE
         IN  f[k] + SumOver(f, ks \ {k})

Max(S) == CHOOSE x \in S : \A y \in S : y <= x
Min(S) == CHOOSE x \in S : \A y \in S : x <= y

\* self.adjacency[source].append(target)
AppendEdge(adj, source, target) ==
    [Touch(adj, source) EXCEPT ![source] = Append(@, target)]

\* Variant: the target is not registered.
RegisterSourceOnly(ns, source, target) == ns \cup {source}

\* self.nodes.add(source); self.nodes.add(target)
RegisterNodes(ns, source, target) == ns \cup {source, target}

\* Variant: each adjacency list counts at most once ("if node in neighbors").
InDegreeOncePerList(adj, node) ==
    SumOver([k \in DOMAIN adj |-> IF InList(node, adj[k]) THEN 1 ELSE 0], DOMAIN adj)

\* get_in_degree: sum of neighbors.count(node) over adjacency.values()
InDegree(adj, node) ==
    SumOver([k \in DOMAIN adj |-> Count(adj[k], node)], DOMAIN adj)

\* get_out_degree: len(self.adjacency[node]), on the map after the read
OutDegree(adj, node) == Len(Touch(adj, node)[node])

\* Variant: the maximum is taken over the adjacency keys, not over the nodes.
MaxInDegreeOverKeys(adj, ns) ==
    IF ns = {} THEN 0 ELSE Max({InDegree(adj, v) : v \in DOMAIN adj})

\* get_max_in_degree
MaxInDegree(adj, ns) ==
    IF ns = {} THEN 0 ELSE Max({InDegree(adj, v) : v \in ns})

\* get_max_out_degree
MaxOutDegree(adj, ns) ==
    IF ns = {} THEN 0 ELSE Max({OutDegree(adj, v) : v \in ns})

Init ==
    /\ adjacency = EmptyMap
    /\ nodes = {}
    /\ inserted = EmptyBag
    /\ pc = "idle"
    /\ ret = NoRet
    /\ state = EmptyMap
    /\ stack = <<>>
    /\ pagerank = EmptyMap
    /\ damping = <<0, 1>>
    /\ iterations = 0
    /\ round = 0

add_edge(source, target) ==
    /\ pc = "idle"
    /\ BagCardinality(inserted) < MaxEdges
    /\ adjacency' = AppendEdge(adjacency, source, target)
    /\ nodes' = RegisterNodes(nodes, source, target)
    /\ inserted' = inserted (+) SetToBag({<<source, target>>})
    /\ ret' = NoRet
    /\ UNCHANGED <<pc, dagVars, rankVars>>

get_in_degree(node) ==
    /\ pc = "idle"
    /\ ret' = [op |-> "in_degree", arg |-> node, val |-> InDegree(adjacency, node)]
    /\ UNCHANGED <<graphVars, pc, dagVars, rankVars>>

get_out_degree(node) ==
    /\ pc = "idle"
    /\ adjacency' = Touch(adjacency, node)
    /\ ret' = [op |-> "out_degree", arg |-> node, val |-> OutDegree(adjacency, node)]
    /\ UNCHANGED <<nodes, inserted, pc, dagVars, rankVars>>

get_max_in_degree ==
    /\ pc = "idle"
    /\ ret' = [op |-> "max_in_degree", val |-> MaxInDegree(adjacency, nodes)]
    /\ UNCHANGED <<graphVars, pc, dagVars, rankVars>>

get_max_out_degree ==
    /\ pc = "idle"
    /\ adjacency' = TouchAll(adjacency, nodes)
    /\ ret' = [op |-> "max_out_degree", val |-> MaxOutDegree(adjacency, nodes)]
    /\ UNCHANGED <<nodes, inserted, pc, dagVars, rankVars>>

get_adjacency_list(node) ==
    /\ pc = "idle"
    /\ adjacency' = Touch(adjacency, node)
    /\ ret' = [op |-> "adjacency_list", arg |-> node, val |-> Touch(adjacency, node)[node]]
    /\ UNCHANGED <<nodes, inserted, pc, dagVars, rankVars>>

GraphNext ==
    \/ \E s \in NodeIds, t \in NodeIds : add_edge(s, t)
    \/ \E v \in NodeIds : get_in_degree(v)
    \/ \E v \in NodeIds : get_out_degree(v)
    \/ get_max_in_degree
    \/ get_max_out_degree
    \/ \E v \in NodeIds : get_adjacency_list(v)

\* ------------------------------------------------------------- is_dag

\* state = {node: 0 for node in graph.get_nodes()}
InitialState(ns) == [v \in ns |-> 0]

\* if neighbor not in state: state[neighbor] = 0
Seed(st, neighbor) ==
    IF neighbor \in DOMAIN st THEN st ELSE st @@ (neighbor :> 0)

\* Variant: two states only, any node seen before counts as a back edge.
NeighborVerdictSeenIsCycle(st, neighbor) ==
    IF st[neighbor] # 0 THEN "cycle" ELSE "descend"

\* What has_cycle_dfs(neighbor) does on entry, by the neighbour's state:
\* 1 -> return True (back edge), 2 -> return False, 0 -> descend.
NeighborVerdict(st, neighbor) ==
    IF st[neighbor] = 1 THEN "cycle"
    ELSE IF st[neighbor] = 2 THEN "skip"
    ELSE "descend"

\* Variant: a node is marked visited as soon as it is entered.
MarkVisitingAsVisited(st, node) == [st EXCEPT ![node] = 2]

\* state[node] = 1
MarkVisiting(st, node) == [st EXCEPT ![node] = 1]

\* state[node] = 2
MarkVisited(st, node) == [st EXCEPT ![node] = 2]

Top == stack[Len(stack)]
Pop(stk) == SubSeq(stk, 1, Len(stk) - 1)
\* the caller's for loop moves on to its next neighbour
Advance(stk) ==
    IF stk = <<>> THEN stk
    ELSE [stk EXCEPT ![Len(stk)] = <<@[1], @[2] + 1>>]

is_dag_start ==
    /\ pc = "idle"
    /\ state' = InitialState(nodes)
    /\ stack' = <<>>
    /\ pc' = "roots"
    /\ ret' = NoRet
    /\ UNCHANGED <<graphVars, rankVars>>

\* for node in graph.get_nodes(): if state[node] == 0: has_cycle_dfs(node)
\* (the loop passes over the nodes whose state is not 0; any iteration order
\* of the set is some sequence of these choices)
is_dag_root(node) ==
    /\ pc = "roots"
    /\ node \in nodes
    /\ state[node] = 0
    /\ state' = MarkVisiting(state, node)
    /\ adjacency' = Touch(adjacency, node)
    /\ stack' = <<<<node, 1>>>>
    /\ pc' = "dfs"
    /\ UNCHANGED <<nodes, inserted, ret, rankVars>>

\* the loop over the nodes is exhausted: return True
is_dag_return_true ==
    /\ pc = "roots"
    /\ \A v \in nodes : state[v] # 0
    /\ ret' = [op |-> "is_dag", val |-> TRUE]
    /\ pc' = "idle"
    /\ state' = EmptyMap
    /\ stack' = <<>>
    /\ UNCHANGED <<graphVars, rankVars>>

\* one turn of "for neighbor in graph.get_adjacency_list(node)" in the top frame
dfs_neighbor ==
    /\ pc = "dfs"
    /\ LET node == Top[1]
           i == Top[2]
       IN  /\ i <= Len(adjacency[node])
           /\ LET neighbor == adjacency[node][i]
                  st == Seed(state, neighbor)
                  verdict == NeighborVerdict(st, neighbor)
              IN  \/ /\ verdict = "cycle"
                     /\ state' = st
                     /\ pc' = "unwind"
                     /\ UNCHANGED <<adjacency, stack>>
                  \/ /\ verdict = "skip"
                     /\ state' = st
                     /\ stack' = Advance(stack)
                     /\ UNCHANGED <<adjacency, pc>>
                  \/ /\ verdict = "descend"
                     /\ state' = MarkVisiting(st, neighbor)
                     /\ adjacency' = Touch(adjacency, neighbor)
                     /\ stack' = Append(stack, <<neighbor, 1>>)
                     /\ UNCHANGED pc
    /\ UNCHANGED <<nodes, inserted, ret, rankVars>>

\* the neighbours of the top frame are exhausted: state[node] = 2; return False
dfs_finish ==
    /\ pc = "dfs"
    /\ Top[2] > Len(adjacency[Top[1]])
    /\ state' = MarkVisited(state, Top[1])
    /\ stack' = Advance(Pop(stack))
    /\ pc' = IF Pop(stack) = <<>> THEN "roots" ELSE "dfs"
    /\ UNCHANGED <<graphVars, ret, rankVars>>

\* "if has_cycle_dfs(neighbor): return True" in each frame, then
\* "if has_cycle_dfs(node): return False" in is_dag
dfs_unwind ==
    /\ pc = "unwind"
    /\ stack' = IF Len(stack) = 1 THEN <<>> ELSE Pop(stack)
    /\ IF Len(stack) = 1
       THEN /\ ret' = [op |-> "is_dag", val |-> FALSE]
            /\ pc' = "idle"
            /\ state' = EmptyMap
       ELSE UNCHANGED <<ret, pc, state>>
    /\ UNCHANGED <<graphVars, rankVars>>

DagNext ==
    \/ is_dag_start
    \/ \E v \in NodeIds : is_dag_root(v)
    \/ is_dag_return_true
    \/ dfs_neighbor
    \/ dfs_finish
    \/ dfs_unwind

\* --------------------------------------------------- compute_pagerank

\* Ranks are exact rationals <<num, den>> in lowest terms, den > 0.
RECURSIVE GCD(_, _)
GCD(a, b) == IF b = 0 THEN a ELSE GCD(b, a % b)
Abs(a) == IF a < 0 THEN -a ELSE a
Rat(num, den) ==
    LET g == GCD(Abs(num), den)
    IN  <<num \div g, den \div g>>
Zero == <<0, 1>>
One == <<1, 1>>
RAdd(x, y) ==
    IF x[1] = 0 THEN y
    ELSE IF y[1] = 0 THEN x
    ELSE LET g == GCD(x[2], y[2])
         IN  Rat(x[1] * (y[2] \div g) + y[1] * (x[2] \div g), (x[2] \div g) * y[2])
RSub(x, y) == RAdd(x, <<-y[1], y[2]>>)
RMul(x, y) ==
    IF x[1] = 0 \/ y[1] = 0 THEN Zero
    ELSE LET a == Rat(x[1], y[2])
             b == Rat(y[1], x[2])
         IN  <<a[1] * b[1], a[2] * b[2]>>
RDivInt(x, k) == RMul(x, <<1, k>>)
RLeq(x, y) == RSub(y, x)[1] >= 0

RECURSIVE RSum(_, _)
RSum(f, ks) ==
    IF ks = {} THEN Zero
    ELSE LET k == CHOOSE x \in ks : TRUE
         IN  RAdd(f[k], RSum(f, ks \ {k}))

\* max(pagerank), min(pagerank): a left-to-right scan keeping the best so far
RECURSIVE RMaxOver(_, _, _)
RMaxOver(f, ks, best) ==
    IF ks = {} THEN best
    ELSE LET k == CHOOSE x \in ks : TRUE
         IN  RMaxOver(f, ks \ {k}, IF RLeq(f[k], best) THEN best ELSE f[k])
RECURSIVE RMinOver(_, _, _)
RMinOver(f, ks, best) ==
    IF ks = {} THEN best
    ELSE LET k == CHOOSE x \in ks : TRUE
         IN  RMinOver(f, ks \ {k}, IF RLeq(best, f[k]) THEN best ELSE f[k])
RMax(f) ==
    LET k == CHOOSE x \in DOMAIN f : TRUE
    IN  RMaxOver(f, DOMAIN f \ {k}, f[k])
RMin(f) ==
    LET k == CHOOSE x \in DOMAIN f : TRUE
    IN  RMinOver(f, DOMAIN f \ {k}, f[k])

\* pagerank = [1.0 / n for _ in range(n)], indexed by node through node_to_idx
UniformRank(ns) == [v \in ns |-> Rat(1, Cardinality(ns))]

\* sink_nodes: the nodes with get_out_degree(node) == 0
SinkNodes(adj, ns) == {v \in ns : OutDegree(adj, v) = 0}

\* sink_contribution: the sinks' ranks summed, then divided by n
SinkContribution(pr, adj, ns) ==
    IF SinkNodes(adj, ns) = {} THEN Zero
    ELSE RDivInt(RSum(pr, SinkNodes(adj, ns)), Cardinality(ns))

\* Whether source adds pagerank[source] / out_degree to node's rank, and how
\* many times: "if out_degree > 0 and node in graph.get_adjacency_list(source_node)"
Votes(adj, source, node) ==
    IF OutDegree(adj, source) > 0 /\ InList(node, adj[source]) THEN 1 ELSE 0

\* pagerank[source_idx] / out_degree
Share(pr, adj, source) == RDivInt(pr[source], OutDegree(adj, source))

\* rank += pagerank[source_idx] / out_degree, over the sources that vote
LinkContribution(pr, adj, ns, node) ==
    LET voters == {u \in ns : Votes(adj, u, node) > 0}
    IN  RSum([u \in voters |-> RMul(Share(pr, adj, u), <<Votes(adj, u, node), 1>>)],
             voters)

\* new_pagerank[node_idx] = (1.0 - damping_factor) / n + damping_factor * rank
NewRank(n, d, rank) ==
    RAdd(RDivInt(RSub(One, d), n), RMul(d, rank))

\* Variant: the loop over the nodes skips its first element.
RankTargetsSkipFirst(ns) == ns \ {Min(ns)}

\* "for node in nodes": the nodes whose entry of new_pagerank is assigned
RankTargets(ns) == ns

\* one round: new_pagerank = [0.0] * n, then every node's entry from the old
\* vector: rank = sink_contribution, plus the voters' shares
Round(pr, adj, ns, d) ==
    LET sink == SinkContribution(pr, adj, ns)
        n == Cardinality(ns)
    IN  [v \in ns |->
            IF v \in RankTargets(ns)
            THEN NewRank(n, d, RAdd(sink, LinkContribution(pr, adj, ns, v)))
            ELSE Zero]

\* Variant: range(iterations + 1), one round too many.
LoopContinuesInclusive(rnd, iters) == rnd <= iters

\* "for _ in range(iterations)" has another round to run
LoopContinues(rnd, iters) == rnd < iters

ResetRank ==
    /\ pagerank' = EmptyMap
    /\ damping' = <<0, 1>>
    /\ iterations' = 0
    /\ round' = 0

compute_pagerank_start(d, iters) ==
    /\ pc = "idle"
    /\ IF nodes = {}
       THEN /\ ret' = [op |-> "pagerank", max |-> Zero, min |-> Zero,
                       n |-> 0, rounds |-> 0, iterations |-> iters, damping |-> d]
            /\ UNCHANGED <<adjacency, pc, rankVars>>
       ELSE /\ pagerank' = UniformRank(nodes)
            /\ adjacency' = TouchAll(adjacency, nodes)
            /\ damping' = d
            /\ iterations' = iters
            /\ round' = 0
            /\ pc' = "rank"
            /\ ret' = NoRet
    /\ UNCHANGED <<nodes, inserted, dagVars>>

pagerank_round ==
    /\ pc = "rank"
    /\ LoopContinues(round, iterations)
    /\ pagerank' = Round(pagerank, adjacency, nodes, damping)
    /\ round' = round + 1
    /\ UNCHANGED <<graphVars, pc, ret, dagVars, damping, iterations>>

pagerank_return ==
    /\ pc = "rank"
    /\ ~LoopContinues(round, iterations)
    /\ ret' = [op |-> "pagerank", max |-> RMax(pagerank), min |-> RMin(pagerank),
               n |-> Cardinality(nodes), rounds |-> round,
               iterations |-> iterations, damping |-> damping]
    /\ pc' = "idle"
    /\ ResetRank
    /\ UNCHANGED <<graphVars, dagVars>>

RankNext ==
    \/ \E d \in DampingValues, k \in 0..MaxIter : compute_pagerank_start(d, k)
    \/ pagerank_round
    \/ pagerank_return

Next == GraphNext \/ DagNext \/ RankNext

Spec == Init /\ [][Next]_vars

\* The graph with its degree queries alone.
SpecGraph == Init /\ [][GraphNext]_vars

\* Graph construction followed by is_dag.
BuildNext == \E s \in NodeIds, t \in NodeIds : add_edge(s, t)
DagSpecNext == BuildNext \/ DagNext
SpecDag == Init /\ [][DagSpecNext]_vars

\* Graph construction followed by compute_pagerank.
RankSpecNext == BuildNext \/ RankNext
SpecRank == Init /\ [][RankSpecNext]_vars

\* The edges 1->2, 2->3, 3->1 inserted in any order, then is_dag and
\* compute_pagerank.
CycleEdges == {<<1, 2>>, <<2, 3>>, <<3, 1>>}
CycleBuildNext == \E e \in CycleEdges : add_edge(e[1], e[2])
CycleSpecNext == CycleBuildNext \/ DagNext \/ RankNext
SpecCycle == Init /\ [][CycleSpecNext]_vars

\* ------------------------------------------------------------- claims

\* The (source, target) pairs inserted so far, and how often x is a source /
\* a target among them.
Edges == BagToSet(inserted)
InsertedFrom(x) ==
    BagCardinality([e \in {f \in Edges : f[1] = x} |-> inserted[e]])
InsertedTo(x) ==
    BagCardinality([e \in {f \in Edges : f[2] = x} |-> inserted[e]])

\* Reachability along inserted edges: pairs joined by a path of >= 1 edge.
Joined(R) == {pq \in R \X R : pq[1][2] = pq[2][1]}
RECURSIVE PathsFrom(_, _)
PathsFrom(R, k) ==
    IF k = 0 THEN R
    ELSE PathsFrom(R \cup {<<pq[1][1], pq[2][2]>> : pq \in Joined(R)},
                   k - 1)
HasCycle == \E p \in PathsFrom(Edges, Cardinality(Edges)) : p[1] = p[2]

\* C1: whatever the graph and the order in which the roots are taken, is_dag
\* returns True exactly when the inserted edges contain no directed cycle; so
\* True on the empty graph and False whenever some edge v->v was inserted.
C1_VerdictIsAcyclicity ==
    ret.op = "is_dag" =>
        /\ ret.val = ~HasCycle
        /\ (nodes = {} => ret.val = TRUE)
        /\ ((\E e \in Edges : e[1] = e[2]) => ret.val = FALSE)

\* is_dag has answered False on a graph of three nodes without self-loop.
C1_Witness ==
    /\ ret.op = "is_dag"
    /\ ret.val = FALSE
    /\ Cardinality(nodes) = 3
    /\ \A e \in Edges : e[1] # e[2]

\* The round the claim describes: every occurrence of v in u's adjacency
\* sequence adds old_rank(u) / out_degree(u) to v's rank.
ClaimedLinkContribution(pr, adj, ns, node) ==
    LET voters == {u \in ns : Count(adj[u], node) > 0}
    IN  RSum([u \in voters |-> RMul(Share(pr, adj, u), <<Count(adj[u], node), 1>>)],
             voters)
ClaimedRound(pr, adj, ns, d) ==
    [v \in ns |->
        NewRank(Cardinality(ns), d,
                RAdd(SinkContribution(pr, adj, ns),
                     ClaimedLinkContribution(pr, adj, ns, v)))]

\* C2: in every round, a node u with m parallel edges u->v adds
\* old_rank(u) / out_degree(u) to new_rank(v) m times, once per occurrence.
C2_ParallelEdgesVoteEach ==
    [][(pc = "rank" /\ round' = round + 1) =>
          pagerank' = ClaimedRound(pagerank, adjacency, nodes, damping)]_vars

\* C3: for every identifier x, inserted or not, out_degree(x) is the number
\* of inserted edges with source x and in_degree(x) the number with target x,
\* duplicates and self-loops counted; the values the queries return agree.
C3_DegreesCountInsertedEdges ==
    /\ \A x \in NodeIds :
          /\ OutDegree(adjacency, x) = InsertedFrom(x)
          /\ InDegree(adjacency, x) = InsertedTo(x)
    /\ (ret.op = "out_degree" => ret.val = InsertedFrom(ret.arg))
    /\ (ret.op = "in_degree" => ret.val = InsertedTo(ret.arg))

\* in_degree has returned 2 or more for the target of a repeated edge.
C3_Witness ==
    /\ ret.op = "in_degree"
    /\ ret.val >= 2
    /\ \E e \in Edges : inserted[e] >= 2 /\ e[2] = ret.arg

\* C4: every step other than add_edge (every query, is_dag, compute_pagerank)
\* leaves the node set and the adjacency mapping, keys included, as they were.
C4_ReadsLeaveGraphUnchanged ==
    [][inserted' = inserted => (adjacency' = adjacency /\ nodes' = nodes)]_vars

\* C5: the node set is exactly the set of endpoints of the inserted edges:
\* whatever occurs in an adjacency sequence, or owns a non-empty one, is a
\* node, and every node has an incident edge.
C5_NodesAreEndpoints ==
    /\ nodes = {e[1] : e \in Edges} \cup {e[2] : e \in Edges}
    /\ \A k \in DOMAIN adjacency :
          /\ \A i \in 1..Len(adjacency[k]) : adjacency[k][i] \in nodes
          /\ (adjacency[k] # <<>> => k \in nodes)
    /\ \A v \in nodes : InDegree(adjacency, v) + OutDegree(adjacency, v) >= 1

\* Edges were inserted and a query has since left a key that is no node.
C5_Witness ==
    /\ Cardinality(nodes) >= 2
    /\ \E k \in DOMAIN adjacency : k \notin nodes

\* C7: both maxima are >= 0, and each is 0 exactly when there are no nodes;
\* the values the queries return agree.
C7_MaxDegreeZeroIffEmpty ==
    /\ LET maxIn == MaxInDegree(adjacency, nodes)
           maxOut == MaxOutDegree(adjacency, nodes)
       IN  /\ maxIn >= 0
           /\ maxOut >= 0
           /\ (maxIn = 0 <=> nodes = {})
           /\ (maxOut = 0 <=> nodes = {})
    /\ (ret.op \in {"max_in_degree", "max_out_degree"} =>
          ret.val >= 0 /\ (ret.val = 0 <=> nodes = {}))

\* max_in_degree has returned 1 on a graph in which some node has no
\* incoming edge.
C7_Witness ==
    /\ ret.op = "max_in_degree"
    /\ ret.val = 1
    /\ \E v \in nodes : InDegree(adjacency, v) = 0

\* C6: for a non-empty graph and damping in [0, 1] the ranks sum to 1 at the
\* start and after every round.
C6_MassConserved ==
    pc = "rank" => RSum(pagerank, nodes) = One

\* C8: compute_pagerank runs exactly `iterations` rounds from the uniform
\* vector: with iterations = 0 it returns (1/n, 1/n), and on the empty graph
\* it returns (0, 0) with no round run.
C8_RoundsExact ==
    /\ pc = "rank" =>
          /\ round <= iterations
          /\ (round = 0 => \A v \in nodes : pagerank[v] = <<1, Cardinality(nodes)>>)
    /\ ret.op = "pagerank" =>
          IF nodes = {}
          THEN ret.max = <<0, 1>> /\ ret.min = <<0, 1>> /\ ret.rounds = 0
          ELSE /\ ret.rounds = ret.iterations
               /\ (ret.iterations = 0 =>
                      /\ ret.max = <<1, Cardinality(nodes)>>
                      /\ ret.min = <<1, Cardinality(nodes)>>)

\* compute_pagerank has returned for iterations = 0 on a graph with edges and
\* at least two nodes.
C8_Witness ==
    /\ ret.op = "pagerank"
    /\ ret.iterations = 0
    /\ ret.rounds = 0
    /\ Cardinality(nodes) >= 2

\* C9: on the graph built from 1->2, 2->3, 3->1, is_dag returns False, and
\* with damping 0.85 the three ranks are equal after every round, so that
\* compute_pagerank returns max = min.
IsCycleGraph == inserted = SetToBag(CycleEdges)
C9_CycleRanksEqual ==
    IsCycleGraph =>
        /\ (ret.op = "is_dag" => ret.val = FALSE)
        /\ ((pc = "rank" /\ damping = DefaultDamping) =>
               \A u \in nodes, v \in nodes : pagerank[u] = pagerank[v])
        /\ ((ret.op = "pagerank" /\ ret.damping = DefaultDamping) =>
               ret.max = ret.min)

\* compute_pagerank has returned on the cycle after at least two rounds at
\* damping 0.85.
C9_Witness ==
    /\ IsCycleGraph
    /\ ret.op = "pagerank"
    /\ ret.damping = DefaultDamping
    /\ ret.rounds >= 2

\* A measure of the work is_dag has left: unfinished node states, the
\* neighbours the active frames have yet to look at, and the phase.
RECURSIVE FrameWork(_)
FrameWork(stk) ==
    IF stk = <<>> THEN 0
    ELSE Len(adjacency[stk[1][1]]) + 2 - stk[1][2] + FrameWork(Tail(stk))
DfsMeasure ==
    (BagCardinality(inserted) + 4)
        * SumOver([v \in DOMAIN state |-> 2 - state[v]], DOMAIN state)
    + FrameWork(stack)
    + (IF pc = "dfs" THEN 2 ELSE IF pc \in {"roots", "unwind"} THEN 1 ELSE 0)

\* C10: within one is_dag call a node's state only steps 0 -> 1 -> 2; every
\* step of the call uses up some of a finite measure, so the call ends; a
\* node is marked visited only when all its neighbours are; and once a
\* neighbour is found visiting, no state changes until is_dag returns False.
C10_TraversalDiscipline ==
    /\ [][\A v \in DOMAIN state \cap DOMAIN state' :
             state'[v] = state[v] \/ state'[v] = state[v] + 1]_vars
    /\ [][pc # "idle" => DfsMeasure' < DfsMeasure]_vars
    /\ [](DfsMeasure >= 0)
    /\ [](\A v \in DOMAIN state :
             state[v] = 2 =>
                \A i \in 1..Len(adjacency[v]) : state[adjacency[v][i]] = 2)
    /\ [][pc = "unwind" =>
             \/ pc' = "unwind" /\ state' = state
             \/ pc' = "idle" /\ ret' = [op |-> "is_dag", val |-> FALSE]]_vars

\* A back edge has been found two frames deep while another node is
\* already visited.
C10_Witness ==
    /\ pc = "unwind"
    /\ Len(stack) >= 2
    /\ \E v \in DOMAIN state : state[v] = 2

====
